---- MODULE Spec2Model ----
(***************************************************************************)
(* Model of the BlockchainOAuth repository: the OAuthNFT ledger contract   *)
(* (src/contracts/OAuthNFT.sol) and the OAuth backend that fronts it       *)
(* (src/backend/server.ts).                                                *)
(*                                                                         *)
(* Time is counted in seconds.  Addresses are small naturals, 0 being      *)
(* address(0).  A 32-byte event topic is modelled by the number it         *)
(* encodes, so ethers.toBigInt(topic) is the topic's value and an address  *)
(* topic converts to the address' number.                                  *)
(* Authorization codes are 32 random bytes (server.ts:52); the model draws *)
(* them as fresh names, i.e. it assumes the random source never repeats.   *)
(***************************************************************************)
EXTENDS Integers, Sequences, FiniteSets, TLC

\* ---------------------------------------------------------------- bounds
MaxCodes  == 2      \* authorization codes issued in one behaviour
MaxReq    == 2      \* POST /oauth/token requests in one behaviour
MaxTokens == 2      \* records the ledger mints in one behaviour
MaxTime   == 3600   \* the clock stops here
MaxBackendTime == 1200 \* the clock stops here where the backend runs
MaxCalls  == 3      \* transactions sent straight to the contract in one behaviour
MaxVerify == 1      \* POST /oauth/verify requests in one behaviour
MaxRevoke == 1      \* POST /oauth/revoke requests in one behaviour

\* ------------------------------------------------------ program constants
CodeTTL  == 600     \* setTimeout(..., 600000) ms
TokenTTL == 3600    \* Math.floor(Date.now() / 1000) + 3600
JwtTTL   == 3600    \* expiresIn: '1h'

\* ------------------------------------------------------------ input sets
ZeroAddress == 0
Deployer    == 1                    \* signer 0: deploys, owns the contract, signs for the backend
Address     == 0..3
Callers     == Address \ {ZeroAddress}
Codes       == 1..MaxCodes
Reqs        == 1..MaxReq
VerifyReqs  == 1..MaxVerify
RevokeReqs  == 1..MaxRevoke
TokenIds    == 0..MaxTokens
ClientIds   == {"client_001", "client_002"}
RedirectUris == {"http://cb", "http://evil"}
Scopes      == {"read", "write"}
Users       == {2, 3}               \* wallets that ask the backend for authorization
Missing     == ""                   \* an absent (falsy) string field of a request body
NoAddress   == 9                    \* an absent userAddress field
NoCode      == 0                    \* an absent code field
JWT_SECRET  == "your-secret-key"

NoRecord == [user |-> ZeroAddress, clientId |-> "", scope |-> "", expiresAt |-> 0, revoked |-> FALSE]

VARIABLES
    now,                 \* wall clock = block.timestamp, seconds
    \* ---- OAuthNFT contract storage
    tokenIdCounter,      \* _tokenIdCounter
    authTokens,          \* mapping(uint256 => AuthToken)
    userTokens,          \* mapping(address => uint256[])
    clientRegistry,      \* mapping(string => address)
    owners,              \* ERC721 _owners: holder of each NFT, 0 if not minted
    \* ---- backend
    authorizationCodes,  \* Map<string, AuthorizationRequest>: code -> request
    timers,              \* pending setTimeout callbacks: code -> due time
    issuedAt,            \* code -> time of issue, for every code issued so far
    authorizeResponse,   \* response of the last POST /oauth/authorize
    req,                 \* POST /oauth/token requests: position and locals of each handler
    vreq,                \* POST /oauth/verify requests, likewise
    rreq,                \* POST /oauth/revoke requests, likewise
    \* ---- history
    mintCalls,           \* code -> number of contract.mintAuthToken calls made for it
    lookupsPassed,       \* code -> number of requests that got past the code lookup
    lastCall,            \* the last transaction sent straight to the contract, and how it ended
    everRegistered       \* client ids for which a registerClient call has succeeded

ledgerVars == <<tokenIdCounter, authTokens, userTokens, clientRegistry, owners>>
storeVars  == <<authorizationCodes, timers, issuedAt>>
histVars   == <<mintCalls, lookupsPassed>>
vars == <<now, tokenIdCounter, authTokens, userTokens, clientRegistry, owners,
          authorizationCodes, timers, issuedAt, authorizeResponse, req,
          vreq, rreq, mintCalls, lookupsPassed, lastCall, everRegistered>>

\* ======================================================================
\* OAuthNFT.sol
\* ======================================================================

\* Ownable.owner(): set to the deployer by the constructor.
owner == Deployer

\* ERC721._ownerOf: the current holder of the NFT, address(0) if none (a
\* mapping reads as zero at every key never written).
ownerOf(tokenId) == IF tokenId \in DOMAIN owners THEN owners[tokenId] ELSE ZeroAddress

exists(tokenId) == ownerOf(tokenId) # ZeroAddress

\* registerClient: onlyOwner, then the "Client already registered" require.
registerClientReverts(sender, clientId) ==
    IF sender # owner THEN "OwnableUnauthorizedAccount"
    ELSE IF clientRegistry[clientId] # ZeroAddress THEN "Client already registered"
    ELSE "ok"

registerClient(sender, clientId, clientAddress) ==
    /\ registerClientReverts(sender, clientId) = "ok"
    /\ clientRegistry' = [clientRegistry EXCEPT ![clientId] = clientAddress]
    /\ UNCHANGED <<tokenIdCounter, authTokens, userTokens, owners>>

\* Mutant: the "Invalid expiration time" require is left out.
mintAuthTokenRevertsNoExpiry(user, clientId, expiresAt) ==
    IF clientRegistry[clientId] = ZeroAddress THEN "Client not registered"
    ELSE IF user = ZeroAddress THEN "ERC721InvalidReceiver"
    ELSE "ok"

\* mintAuthToken: the two requires, then ERC721._safeMint, which rejects address(0).
mintAuthTokenReverts(user, clientId, expiresAt) ==
    IF clientRegistry[clientId] = ZeroAddress THEN "Client not registered"
    ELSE IF ~(expiresAt > now) THEN "Invalid expiration time"
    ELSE IF user = ZeroAddress THEN "ERC721InvalidReceiver"
    ELSE "ok"

\* The record mintAuthToken writes.
NewAuthToken(user, clientId, scope, expiresAt) ==
    [user |-> user, clientId |-> clientId, scope |-> scope,
     expiresAt |-> expiresAt, revoked |-> FALSE]

\* Mutant: the mint writes every field but revoked, which keeps what the slot held.
mintAuthTokenKeepsFlag(user, clientId, scope, expiresAt) ==
    /\ mintAuthTokenReverts(user, clientId, expiresAt) = "ok"
    /\ tokenIdCounter' = tokenIdCounter + 1
    /\ owners' = [owners EXCEPT ![tokenIdCounter] = user]
    /\ authTokens' = [authTokens EXCEPT ![tokenIdCounter] =
                          [NewAuthToken(user, clientId, scope, expiresAt)
                              EXCEPT !.revoked = authTokens[tokenIdCounter].revoked]]
    /\ userTokens' = [userTokens EXCEPT ![user] = Append(@, tokenIdCounter)]
    /\ UNCHANGED clientRegistry

\* Mutant: the mint uses _tokenIdCounter without incrementing it.
mintAuthTokenNoIncrement(user, clientId, scope, expiresAt) ==
    /\ mintAuthTokenReverts(user, clientId, expiresAt) = "ok"
    /\ owners' = [owners EXCEPT ![tokenIdCounter] = user]
    /\ authTokens' = [authTokens EXCEPT ![tokenIdCounter] =
                          NewAuthToken(user, clientId, scope, expiresAt)]
    /\ userTokens' = [userTokens EXCEPT ![user] = Append(@, tokenIdCounter)]
    /\ UNCHANGED <<tokenIdCounter, clientRegistry>>

\* State change of a mint that does not revert; the id it returns is the
\* unprimed tokenIdCounter.
mintAuthToken(user, clientId, scope, expiresAt) ==
    /\ mintAuthTokenReverts(user, clientId, expiresAt) = "ok"
    /\ tokenIdCounter' = tokenIdCounter + 1
    /\ owners' = [owners EXCEPT ![tokenIdCounter] = user]
    /\ authTokens' = [authTokens EXCEPT ![tokenIdCounter] =
                          NewAuthToken(user, clientId, scope, expiresAt)]
    /\ userTokens' = [userTokens EXCEPT ![user] = Append(@, tokenIdCounter)]
    /\ UNCHANGED clientRegistry

\* Logs of a successful mint, in emission order.  Each log is its topics:
\* topics[0] is the event name (signature hash), then the indexed arguments.
\*   _safeMint      emits Transfer(address indexed from, address indexed to, uint256 indexed tokenId)
\*   _setTokenURI   emits MetadataUpdate(uint256 _tokenId), nothing indexed
\*   mintAuthToken  emits TokenMinted(uint256 indexed tokenId, address indexed user, ...)
MintLogs(user, tokenId) ==
    << <<"Transfer", ZeroAddress, user, tokenId>>,
       <<"MetadataUpdate">>,
       <<"TokenMinted", tokenId, user>> >>

\* Mutant: the require compares the caller with the record's subject.
revokeTokenRevertsSubject(sender, tokenId) ==
    IF authTokens[tokenId].user = sender \/ owner = sender THEN "ok" ELSE "Not authorized"

revokeTokenReverts(sender, tokenId) ==
    IF ownerOf(tokenId) = sender \/ owner = sender THEN "ok" ELSE "Not authorized"

\* Mutant: revokeToken flips the flag instead of setting it.
revokeTokenToggle(sender, tokenId) ==
    /\ revokeTokenReverts(sender, tokenId) = "ok"
    /\ authTokens' = [authTokens EXCEPT ![tokenId].revoked = ~@]
    /\ UNCHANGED <<tokenIdCounter, userTokens, clientRegistry, owners>>

\* Mutant: revokeToken deletes the record and leaves only the flag.
revokeTokenErase(sender, tokenId) ==
    /\ revokeTokenReverts(sender, tokenId) = "ok"
    /\ authTokens' = [authTokens EXCEPT ![tokenId] = [NoRecord EXCEPT !.revoked = TRUE]]
    /\ UNCHANGED <<tokenIdCounter, userTokens, clientRegistry, owners>>

revokeToken(sender, tokenId) ==
    /\ revokeTokenReverts(sender, tokenId) = "ok"
    /\ authTokens' = [authTokens EXCEPT ![tokenId].revoked = TRUE]
    /\ UNCHANGED <<tokenIdCounter, userTokens, clientRegistry, owners>>

\* Mutant: the expiry comparison is >= instead of >.
isTokenValidInclusive(tokenId) ==
    IF ~exists(tokenId) THEN FALSE
    ELSE ~authTokens[tokenId].revoked /\ authTokens[tokenId].expiresAt >= now

isTokenValid(tokenId) ==
    IF ~exists(tokenId) THEN FALSE
    ELSE ~authTokens[tokenId].revoked /\ authTokens[tokenId].expiresAt > now

\* Mutant: the view leaves out the ids that are no longer valid.
getUserTokensLive(user) == SelectSeq(userTokens[user], isTokenValid)

getUserTokens(user) == userTokens[user]

\* ERC721.transferFrom, inherited: the holder hands the NFT to a non-zero address.
transferFromReverts(sender, to, tokenId) ==
    IF to = ZeroAddress THEN "ERC721InvalidReceiver"
    ELSE IF ~exists(tokenId) THEN "ERC721NonexistentToken"
    ELSE IF ownerOf(tokenId) # sender THEN "ERC721InsufficientApproval"
    ELSE "ok"

transferFrom(sender, to, tokenId) ==
    /\ transferFromReverts(sender, to, tokenId) = "ok"
    /\ owners' = [owners EXCEPT ![tokenId] = to]
    /\ UNCHANGED <<tokenIdCounter, authTokens, userTokens, clientRegistry>>

\* ======================================================================
\* Transactions sent straight to the contract by any account
\* ======================================================================

\* n counts the transactions; wasRevoked is the revoked flag of tokenId as the
\* transaction found it.
\* args holds the arguments of a registerClient or mintAuthToken call.
NoArgs == [user |-> ZeroAddress, clientId |-> "", scope |-> "", expiresAt |-> 0,
           clientAddress |-> ZeroAddress]

NoCall == [fn |-> "none", sender |-> ZeroAddress, tokenId |-> 0, result |-> "ok",
           wasRevoked |-> FALSE, n |-> 0, args |-> NoArgs]

CalledWith(fn, sender, tokenId, result, args) ==
    lastCall' = [fn |-> fn, sender |-> sender, tokenId |-> tokenId, result |-> result,
                 wasRevoked |-> authTokens[tokenId].revoked, n |-> lastCall.n + 1,
                 args |-> args]

Called(fn, sender, tokenId, result) == CalledWith(fn, sender, tokenId, result, NoArgs)

backendVars == <<authorizationCodes, timers, issuedAt, authorizeResponse, req,
                 vreq, rreq, mintCalls, lookupsPassed>>

CallRegisterClient(sender, clientId, clientAddress) ==
    /\ lastCall.n < MaxCalls
    /\ CalledWith("registerClient", sender, 0, registerClientReverts(sender, clientId),
                  [NoArgs EXCEPT !.clientId = clientId, !.clientAddress = clientAddress])
    /\ IF registerClientReverts(sender, clientId) = "ok"
          THEN /\ registerClient(sender, clientId, clientAddress)
               /\ everRegistered' = everRegistered \cup {clientId}
          ELSE UNCHANGED <<ledgerVars, everRegistered>>
    /\ UNCHANGED <<now, backendVars>>

CallMintAuthToken(sender, user, clientId, scope, expiresAt) ==
    /\ lastCall.n < MaxCalls
    /\ tokenIdCounter < MaxTokens
    /\ CalledWith("mintAuthToken", sender, tokenIdCounter,
                  mintAuthTokenReverts(user, clientId, expiresAt),
                  [NoArgs EXCEPT !.user = user, !.clientId = clientId, !.scope = scope,
                                 !.expiresAt = expiresAt])
    /\ IF mintAuthTokenReverts(user, clientId, expiresAt) = "ok"
          THEN mintAuthToken(user, clientId, scope, expiresAt)
          ELSE UNCHANGED ledgerVars
    /\ UNCHANGED <<now, backendVars, everRegistered>>

CallRevokeToken(sender, tokenId) ==
    /\ lastCall.n < MaxCalls
    /\ Called("revokeToken", sender, tokenId, revokeTokenReverts(sender, tokenId))
    /\ IF revokeTokenReverts(sender, tokenId) = "ok"
          THEN revokeToken(sender, tokenId)
          ELSE UNCHANGED ledgerVars
    /\ UNCHANGED <<now, backendVars, everRegistered>>

CallTransferFrom(sender, to, tokenId) ==
    /\ lastCall.n < MaxCalls
    /\ Called("transferFrom", sender, tokenId, transferFromReverts(sender, to, tokenId))
    /\ IF transferFromReverts(sender, to, tokenId) = "ok"
          THEN transferFrom(sender, to, tokenId)
          ELSE UNCHANGED ledgerVars
    /\ UNCHANGED <<now, backendVars, everRegistered>>

\* Time passes: Date.now() and block.timestamp advance together.
Tick(d) ==
    /\ now + d <= MaxTime
    /\ now' = now + d
    /\ UNCHANGED <<ledgerVars, backendVars, lastCall, everRegistered>>

\* ======================================================================
\* server.ts
\* ======================================================================

\* Map.prototype.set / delete on a map held as a function.
MapSet(m, k, v) == [x \in DOMAIN m \cup {k} |-> IF x = k THEN v ELSE m[x]]
MapDelete(m, k) == [x \in DOMAIN m \ {k} |-> m[x]]

\* ethers.hexlify(ethers.randomBytes(32)): a code never drawn before.
NewCode == Cardinality(DOMAIN issuedAt) + 1

NoToken == [tokenId |-> 0, userAddress |-> ZeroAddress, clientId |-> "", scope |-> "",
            iat |-> 0, exp |-> 0, sig |-> <<>>]
NoAuthRequest == [clientId |-> "", redirectUri |-> "", scope |-> "", userAddress |-> ZeroAddress]

IdleReq == [pc |-> "idle", code |-> NoCode, clientId |-> "", authRequest |-> NoAuthRequest,
            expiresAt |-> 0, receipt |-> <<>>, status |-> 0, error |-> "",
            access_token |-> NoToken, nft_token_id |-> 0, ledgerFailed |-> FALSE]

\* res.status(st).json({ error }) followed by return, or the catch block.
Fail(r, st, err) == [r EXCEPT !.pc = "done", !.status = st, !.error = err]

\* The catch block entered because an awaited ledger call rejected
\* (unreachable, reverted, timed out); ledgerFailed notes the cause.
LedgerFail(r, st, err) == [Fail(r, st, err) EXCEPT !.ledgerFailed = TRUE]

\* The request body carries clientId, redirectUri and userAddress.
BodyComplete(clientId, redirectUri, userAddress) ==
    clientId # Missing /\ redirectUri # Missing /\ userAddress # NoAddress

\* Mutant: the handler without the check of line 48.
AuthorizeNoCheck(clientId, redirectUri, scope, userAddress) ==
    /\ Cardinality(DOMAIN issuedAt) < MaxCodes
    /\ authorizationCodes' = MapSet(authorizationCodes, NewCode,
           [clientId |-> clientId, redirectUri |-> redirectUri,
            scope |-> IF scope = Missing THEN "read" ELSE scope,
            userAddress |-> userAddress])
    /\ timers' = MapSet(timers, NewCode, now + CodeTTL)
    /\ issuedAt' = MapSet(issuedAt, NewCode, now)
    /\ authorizeResponse' = [status |-> 200, code |-> NewCode,
                             bodyComplete |-> BodyComplete(clientId, redirectUri, userAddress)]
    /\ UNCHANGED <<now, ledgerVars, req, mintCalls, lookupsPassed, lastCall, vreq, rreq, everRegistered>>

\* POST /oauth/authorize (the state field is only echoed and is left out).
\* authorizeResponse keeps, next to the response, whether the body was complete.
Authorize(clientId, redirectUri, scope, userAddress) ==
    /\ Cardinality(DOMAIN issuedAt) < MaxCodes
    /\ IF clientId = Missing \/ redirectUri = Missing \/ userAddress = NoAddress
          THEN /\ authorizeResponse' = [status |-> 400, code |-> NoCode,
                      bodyComplete |-> BodyComplete(clientId, redirectUri, userAddress)]
               /\ UNCHANGED <<authorizationCodes, timers, issuedAt>>
          ELSE /\ authorizationCodes' = MapSet(authorizationCodes, NewCode,
                      [clientId |-> clientId, redirectUri |-> redirectUri,
                       scope |-> IF scope = Missing THEN "read" ELSE scope,
                       userAddress |-> userAddress])
               /\ timers' = MapSet(timers, NewCode, now + CodeTTL)
               /\ issuedAt' = MapSet(issuedAt, NewCode, now)
               /\ authorizeResponse' = [status |-> 200, code |-> NewCode,
                      bodyComplete |-> BodyComplete(clientId, redirectUri, userAddress)]
    /\ UNCHANGED <<now, ledgerVars, req, mintCalls, lookupsPassed, lastCall, vreq, rreq, everRegistered>>

\* Mutant: the callback runs without waiting for its delay.
ExpireCodeEarly(code) ==
    /\ code \in DOMAIN timers
    /\ authorizationCodes' = MapDelete(authorizationCodes, code)
    /\ timers' = MapDelete(timers, code)
    /\ UNCHANGED <<now, ledgerVars, issuedAt, authorizeResponse, req, mintCalls, lookupsPassed, lastCall, vreq, rreq, everRegistered>>

\* The setTimeout callback of a code: runs once, no earlier than its due time.
ExpireCode(code) ==
    /\ code \in DOMAIN timers
    /\ now >= timers[code]
    /\ authorizationCodes' = MapDelete(authorizationCodes, code)
    /\ timers' = MapDelete(timers, code)
    /\ UNCHANGED <<now, ledgerVars, issuedAt, authorizeResponse, req, mintCalls, lookupsPassed, lastCall, vreq, rreq, everRegistered>>

\* Map.prototype.get: undefined for an absent key.
Undefined == NoAuthRequest
MapGet(m, k) == IF k \in DOMAIN m THEN m[k] ELSE Undefined

\* Mutant: the handler does not check the code against the store.
TokenLookupOutcomeNoStoreCheck(code, clientId, redirectUri) ==
    IF code = NoCode \/ clientId = Missing \/ redirectUri = Missing
      THEN "Missing required parameters"
      ELSE "ok"

\* Lines 79-91: the checks of POST /oauth/token in the order the handler makes them.
TokenLookupOutcome(code, clientId, redirectUri) ==
    IF code = NoCode \/ clientId = Missing \/ redirectUri = Missing
      THEN "Missing required parameters"
    ELSE IF MapGet(authorizationCodes, code) = Undefined
      THEN "Invalid authorization code"
    ELSE IF MapGet(authorizationCodes, code).clientId # clientId
              \/ MapGet(authorizationCodes, code).redirectUri # redirectUri
      THEN "Client mismatch"
    ELSE "ok"

\* Mutant: the exchange forgets to delete the code.
CodesAfterLookupKeep(outcome, code) == authorizationCodes

\* Line 93 and its place in the handler: the code is deleted only once
\* every check has passed.
CodesAfterLookup(outcome, code) ==
    IF outcome = "ok" THEN MapDelete(authorizationCodes, code) ELSE authorizationCodes

\* POST /oauth/token, lines 77-93: everything up to the first await runs
\* without interruption.
TokenLookup(p, code, clientId, redirectUri) ==
    /\ req[p].pc = "idle"
    /\ LET outcome == TokenLookupOutcome(code, clientId, redirectUri)
           r == [req[p] EXCEPT !.code = code] IN
         /\ authorizationCodes' = CodesAfterLookup(outcome, code)
         /\ IF outcome = "Missing required parameters"
              THEN /\ req' = [req EXCEPT ![p] = Fail(@, 400, outcome)]
                   /\ UNCHANGED lookupsPassed
            ELSE IF outcome # "ok"
              THEN /\ req' = [req EXCEPT ![p] = Fail(r, 400, outcome)]
                   /\ UNCHANGED lookupsPassed
            ELSE /\ req' = [req EXCEPT ![p] = [r EXCEPT !.pc = "getSigner", !.clientId = clientId,
                                      !.authRequest = MapGet(authorizationCodes, code)]]
                 /\ lookupsPassed' = [lookupsPassed EXCEPT ![code] = @ + 1]
    /\ UNCHANGED <<now, ledgerVars, timers, issuedAt, authorizeResponse, mintCalls, lastCall, vreq, rreq, everRegistered>>

\* Lines 95-101: the signer is resolved, the ledger expiry is computed and
\* contract.mintAuthToken is called.
MintCall(p) ==
    /\ req[p].pc = "getSigner"
    /\ req' = [req EXCEPT ![p].pc = "mintAuthToken", ![p].expiresAt = now + TokenTTL]
    /\ mintCalls' = [mintCalls EXCEPT ![req[p].code] = @ + 1]
    /\ UNCHANGED <<now, ledgerVars, storeVars, authorizeResponse, lookupsPassed, lastCall, vreq, rreq, everRegistered>>

\* The ledger executes the transaction, signed by signer 0.  A revert makes
\* the awaited promise reject, which lands in the catch block.
MintMined(p) ==
    /\ req[p].pc = "mintAuthToken"
    /\ tokenIdCounter < MaxTokens
    /\ LET a == req[p].authRequest IN
       IF mintAuthTokenReverts(a.userAddress, req[p].clientId, req[p].expiresAt) = "ok"
         THEN /\ mintAuthToken(a.userAddress, req[p].clientId, a.scope, req[p].expiresAt)
              /\ req' = [req EXCEPT ![p].pc = "wait",
                                    ![p].receipt = MintLogs(a.userAddress, tokenIdCounter)]
         ELSE /\ req' = [req EXCEPT ![p] = LedgerFail(@, 500, "Token generation failed")]
              /\ UNCHANGED ledgerVars
    /\ UNCHANGED <<now, storeVars, authorizeResponse, mintCalls, lookupsPassed, lastCall, vreq, rreq, everRegistered>>

\* Mutant: the catch block puts the code back for a retry.
GatewayFailRestoresCode(p) ==
    /\ req[p].pc \in {"getSigner", "mintAuthToken", "wait"}
    /\ req' = [req EXCEPT ![p] = LedgerFail(@, 500, "Token generation failed")]
    /\ authorizationCodes' = MapSet(authorizationCodes, req[p].code, req[p].authRequest)
    /\ UNCHANGED <<now, ledgerVars, timers, issuedAt, authorizeResponse, mintCalls, lookupsPassed, lastCall, vreq, rreq, everRegistered>>

\* provider.getSigner, the send or tx.wait() rejects (node unreachable,
\* timeout): catch block.
GatewayFail(p) ==
    /\ req[p].pc \in {"getSigner", "mintAuthToken", "wait"}
    /\ req' = [req EXCEPT ![p] = LedgerFail(@, 500, "Token generation failed")]
    /\ UNCHANGED <<now, ledgerVars, storeVars, authorizeResponse, mintCalls, lookupsPassed, lastCall, vreq, rreq, everRegistered>>

\* The HMAC of a token's claims under a secret: it binds every claim field.
Signature(tok, secret) ==
    <<secret, tok.tokenId, tok.userAddress, tok.clientId, tok.scope, tok.iat, tok.exp>>

\* jwt.sign(payload, JWT_SECRET, { expiresIn }) at time t.
jwtSign(payload, secret, expiresIn, t) ==
    LET claims == [tokenId |-> payload.tokenId, userAddress |-> payload.userAddress,
                   clientId |-> payload.clientId, scope |-> payload.scope,
                   iat |-> t, exp |-> t + expiresIn, sig |-> <<>>]
    IN [claims EXCEPT !.sig = Signature(claims, secret)]

\* Mutant: the handler reads topics[2], the receiver of the Transfer.
ReceiptTokenIdTo(receipt) == receipt[1][3]

\* receipt.logs[0].topics[1] (sequences here are 1-based).
ReceiptTokenId(receipt) == receipt[1][2]

\* Lines 109-129: the receipt arrives, the bearer token is signed and returned.
TokenRespond(p) ==
    /\ req[p].pc = "wait"
    /\ LET tokenId == ReceiptTokenId(req[p].receipt)
           a == req[p].authRequest IN
       req' = [req EXCEPT ![p].pc = "done", ![p].status = 200,
                 ![p].access_token = jwtSign([tokenId |-> tokenId, userAddress |-> a.userAddress,
                                              clientId |-> req[p].clientId, scope |-> a.scope],
                                             JWT_SECRET, JwtTTL, now),
                 ![p].nft_token_id = tokenId]
    /\ UNCHANGED <<now, ledgerVars, storeVars, authorizeResponse, mintCalls, lookupsPassed, lastCall, vreq, rreq, everRegistered>>

\* ----------------------------------------------------------------------
\* POST /oauth/verify and POST /oauth/revoke
\* ----------------------------------------------------------------------

\* A string that is no JWT at all.
Malformed == [NoToken EXCEPT !.sig = <<"garbage">>]

\* Mutant: verification with ignoreExpiration.
jwtVerifyNoExpiry(token, secret, t) ==
    IF token = Malformed THEN "jwt malformed"
    ELSE IF token.sig # Signature(token, secret) THEN "invalid signature"
    ELSE "ok"

\* Mutant: jwt.decode in place of jwt.verify, the signature is not checked.
jwtVerifyNoSignature(token, secret, t) ==
    IF token = Malformed THEN "jwt malformed"
    ELSE IF t >= token.exp THEN "jwt expired"
    ELSE "ok"

\* jwt.verify(token, secret) at time t: the error it throws, or "ok".
\* jsonwebtoken rejects a token from the second its exp is reached.
jwtVerify(token, secret, t) ==
    IF token = Malformed THEN "jwt malformed"
    ELSE IF token.sig # Signature(token, secret) THEN "invalid signature"
    ELSE IF t >= token.exp THEN "jwt expired"
    ELSE "ok"

\* A token whose expiry was edited after signing.
Tamper(token) == [token EXCEPT !.exp = @ + JwtTTL]

\* Bearer tokens handed out by POST /oauth/token so far.
IssuedTokens == {req[p].access_token : p \in {q \in Reqs : req[q].status = 200}}

\* What a client may put in the token field: nothing, garbage, a token it
\* was issued, or such a token edited.
PresentableTokens ==
    {NoToken, Malformed} \cup IssuedTokens \cup {Tamper(t) : t \in IssuedTokens}

IdleVerify == [pc |-> "idle", token |-> NoToken, decodedAt |-> 0, isValid |-> FALSE,
               ledgerCalls |-> 0, afterRevoke |-> FALSE, status |-> 0, error |-> "",
               tokenInfo |-> NoRecord, ledgerFailed |-> FALSE]

IdleRevoke == [pc |-> "idle", token |-> NoToken, decodedAt |-> 0, ledgerCalls |-> 0,
               status |-> 0, error |-> "", ledgerFailed |-> FALSE]

verifyFrame == <<now, ledgerVars, storeVars, authorizeResponse, req, rreq,
                 mintCalls, lookupsPassed, lastCall, everRegistered>>
revokeFrame == <<now, storeVars, authorizeResponse, req, vreq,
                 mintCalls, lookupsPassed, lastCall, everRegistered>>

\* POST /oauth/verify, lines 138-144: the body check and jwt.verify.
\* afterRevoke notes whether a revoke of this token had already answered success.
VerifyStart(v, token) ==
    /\ vreq[v].pc = "idle"
    /\ LET r == [vreq[v] EXCEPT !.token = token, !.decodedAt = now,
                   !.afterRevoke = \E x \in RevokeReqs :
                                      rreq[x].status = 200 /\ rreq[x].token = token] IN
       vreq' = [vreq EXCEPT ![v] =
                  IF token = NoToken THEN Fail(r, 400, "Token required")
                  ELSE IF jwtVerify(token, JWT_SECRET, now) # "ok" THEN Fail(r, 401, "Invalid token")
                  ELSE [r EXCEPT !.pc = "isTokenValid"]]
    /\ UNCHANGED verifyFrame

\* Lines 146-151: the isTokenValid read returns.
VerifyIsTokenValid(v) ==
    /\ vreq[v].pc = "isTokenValid"
    /\ LET isValid == isTokenValid(vreq[v].token.tokenId)
           r == [vreq[v] EXCEPT !.isValid = isValid, !.ledgerCalls = @ + 1] IN
       vreq' = [vreq EXCEPT ![v] =
                  IF ~isValid THEN Fail(r, 401, "Token is invalid or expired")
                  ELSE [r EXCEPT !.pc = "getTokenInfo"]]
    /\ UNCHANGED verifyFrame

\* Lines 153-167: the getTokenInfo read returns (it reverts for an id that
\* does not exist) and the answer is sent.
VerifyGetTokenInfo(v) ==
    /\ vreq[v].pc = "getTokenInfo"
    /\ LET r == [vreq[v] EXCEPT !.ledgerCalls = @ + 1] IN
       vreq' = [vreq EXCEPT ![v] =
                  IF ~exists(vreq[v].token.tokenId) THEN LedgerFail(r, 401, "Invalid token")
                  ELSE [r EXCEPT !.pc = "done", !.status = 200,
                                 !.tokenInfo = authTokens[vreq[v].token.tokenId]]]
    /\ UNCHANGED verifyFrame

\* A ledger read rejects (node unreachable): the catch block of lines 168-171.
VerifyGatewayFail(v) ==
    /\ vreq[v].pc \in {"isTokenValid", "getTokenInfo"}
    /\ vreq' = [vreq EXCEPT ![v] = LedgerFail(@, 401, "Invalid token")]
    /\ UNCHANGED verifyFrame

\* POST /oauth/revoke, lines 176-182: the body check and jwt.verify.
RevokeStart(r, token) ==
    /\ rreq[r].pc = "idle"
    /\ LET x == [rreq[r] EXCEPT !.token = token, !.decodedAt = now] IN
       rreq' = [rreq EXCEPT ![r] =
                  IF token = NoToken THEN Fail(x, 400, "Token required")
                  ELSE IF jwtVerify(token, JWT_SECRET, now) # "ok"
                         THEN Fail(x, 500, "Revocation failed")
                  ELSE [x EXCEPT !.pc = "revokeToken"]]
    /\ UNCHANGED <<ledgerVars, revokeFrame>>

\* Lines 184-187: the ledger executes revokeToken, signed by signer 0.
RevokeMined(r) ==
    /\ rreq[r].pc = "revokeToken"
    /\ IF revokeTokenReverts(Deployer, rreq[r].token.tokenId) = "ok"
         THEN /\ revokeToken(Deployer, rreq[r].token.tokenId)
              /\ rreq' = [rreq EXCEPT ![r].pc = "wait", ![r].ledgerCalls = @ + 1]
         ELSE /\ rreq' = [rreq EXCEPT ![r] =
                             LedgerFail([@ EXCEPT !.ledgerCalls = @ + 1], 500, "Revocation failed")]
              /\ UNCHANGED ledgerVars
    /\ UNCHANGED revokeFrame

\* Lines 188-190: tx.wait() returns and success is answered.
RevokeRespond(r) ==
    /\ rreq[r].pc = "wait"
    /\ rreq' = [rreq EXCEPT ![r].pc = "done", ![r].status = 200]
    /\ UNCHANGED <<ledgerVars, revokeFrame>>

\* getSigner, the send or tx.wait() rejects: the catch block of lines 191-194.
RevokeGatewayFail(r) ==
    /\ rreq[r].pc \in {"revokeToken", "wait"}
    /\ rreq' = [rreq EXCEPT ![r] = LedgerFail(@, 500, "Revocation failed")]
    /\ UNCHANGED <<ledgerVars, revokeFrame>>

\* The contract as deploy.ts leaves it (client_001 registered to the
\* deployer), the backend freshly started.
Init ==
    /\ now = 0
    /\ tokenIdCounter = 0
    /\ authTokens = [t \in TokenIds |-> NoRecord]
    /\ userTokens = [a \in Address |-> <<>>]
    /\ clientRegistry = [c \in ClientIds |-> IF c = "client_001" THEN Deployer ELSE ZeroAddress]
    /\ owners = [t \in TokenIds |-> ZeroAddress]
    /\ authorizationCodes = <<>>
    /\ timers = <<>>
    /\ issuedAt = <<>>
    /\ authorizeResponse = [status |-> 0, code |-> NoCode, bodyComplete |-> FALSE]
    /\ req = [p \in Reqs |-> IdleReq]
    /\ mintCalls = [c \in Codes |-> 0]
    /\ lookupsPassed = [c \in Codes |-> 0]
    /\ lastCall = NoCall
    /\ everRegistered = {"client_001"}
    /\ vreq = [v \in VerifyReqs |-> IdleVerify]
    /\ rreq = [r \in RevokeReqs |-> IdleRevoke]

LedgerNext ==
    \/ \E s \in Callers, c \in ClientIds, a \in Address : CallRegisterClient(s, c, a)
    \/ \E s \in Callers, u \in Address, c \in ClientIds, sc \in Scopes, e \in {now, now + TokenTTL} :
           CallMintAuthToken(s, u, c, sc, e)
    \/ \E s \in Callers, t \in TokenIds : CallRevokeToken(s, t)
    \/ \E s \in Callers, a \in Address, t \in TokenIds : CallTransferFrom(s, a, t)
    \/ Tick(TokenTTL)

\* The contract alone, called by arbitrary accounts.
LedgerSpec == Init /\ [][LedgerNext]_vars

\* The clock of the backend runs, by the lifetime of a code at a time.
BackendTick == now + CodeTTL <= MaxBackendTime /\ Tick(CodeTTL)

BackendNext ==
    \/ \E c \in ClientIds \cup {Missing}, r \in {"http://cb", Missing},
          sc \in {"write", Missing}, u \in Users \cup {NoAddress} : Authorize(c, r, sc, u)
    \/ \E code \in Codes : ExpireCode(code)
    \/ \E p \in Reqs, code \in Codes \cup {NoCode}, c \in ClientIds \cup {Missing},
          r \in RedirectUris \cup {Missing} : TokenLookup(p, code, c, r)
    \/ \E p \in Reqs : MintCall(p)
    \/ \E p \in Reqs : MintMined(p)
    \/ \E p \in Reqs : GatewayFail(p)
    \/ \E p \in Reqs : TokenRespond(p)
    \/ BackendTick

\* The backend in front of the contract.
Spec == Init /\ [][BackendNext]_vars

\* The backend as Node.js runs it: time passes, and a timer callback that
\* is due is run by the event loop sooner or later.  Nothing in the handlers
\* bounds how long the ledger takes to answer, so no step that waits for
\* the ledger is assumed to happen.
LiveSpec ==
    /\ Spec
    /\ WF_vars(BackendTick)
    /\ WF_vars(\E code \in Codes : ExpireCode(code))

\* The token API: exchanges by registered clients, then verification and
\* revocation of the bearer tokens, with the clock moving by the token
\* lifetime; any awaited ledger call may fail.
ApiNext ==
    \/ \E u \in Users : Authorize("client_001", "http://cb", Missing, u)
    \/ \E p \in Reqs, code \in Codes : TokenLookup(p, code, "client_001", "http://cb")
    \/ \E p \in Reqs : MintCall(p)
    \/ \E p \in Reqs : MintMined(p)
    \/ \E p \in Reqs : GatewayFail(p)
    \/ \E p \in Reqs : TokenRespond(p)
    \/ \E v \in VerifyReqs, t \in PresentableTokens : VerifyStart(v, t)
    \/ \E v \in VerifyReqs : VerifyIsTokenValid(v)
    \/ \E v \in VerifyReqs : VerifyGetTokenInfo(v)
    \/ \E v \in VerifyReqs : VerifyGatewayFail(v)
    \/ \E r \in RevokeReqs, t \in PresentableTokens : RevokeStart(r, t)
    \/ \E r \in RevokeReqs : RevokeMined(r)
    \/ \E r \in RevokeReqs : RevokeRespond(r)
    \/ \E r \in RevokeReqs : RevokeGatewayFail(r)
    \/ Tick(TokenTTL)

ApiSpec == Init /\ [][ApiNext]_vars

\* ======================================================================
\* Properties of the backend (Spec)
\* ======================================================================

\* C1: for every issued code, under any interleaving of the token requests
\* that present it and of its expiry timer, at most one request gets past
\* the code lookup and at most one mintAuthToken call is made for it.
C1_AtMostOneExchangePerCode ==
    \A c \in Codes : lookupsPassed[c] <= 1 /\ mintCalls[c] <= 1

\* Two requests presented the same code; one is in flight with its mint
\* call made, the other was turned away.
C1_Witness ==
    \E p, q \in Reqs :
        /\ p # q /\ req[p].code = req[q].code /\ req[p].code \in Codes
        /\ req[p].pc = "mintAuthToken" /\ mintCalls[req[p].code] = 1
        /\ req[q].error = "Invalid authorization code"

\* C2 (as claimed): once a request presenting a stored code was refused for
\* a clientId or redirectUri mismatch, the code is consumed: every other
\* request that presents this code ends with 400.
C2_MismatchConsumesCode ==
    \A p, q \in Reqs :
        (p # q /\ req[p].error = "Client mismatch" /\ req[q].code = req[p].code)
            => (req[q].pc = "done" /\ req[q].status = 400)

\* C3: a token request whose code is not in the store is answered 400 in
\* that very step, with no mintAuthToken call and the ledger untouched.
C3_UnknownCodeRejected ==
    [][\A p \in Reqs, c \in Codes :
          (req[p].pc = "idle" /\ req'[p].pc # "idle" /\ req'[p].code = c
             /\ c \notin DOMAIN authorizationCodes)
          => (req'[p].pc = "done" /\ req'[p].status = 400
                /\ UNCHANGED ledgerVars /\ UNCHANGED mintCalls)]_vars

\* A request was refused for a code an earlier exchange had consumed, after
\* that exchange had minted its record.
C3_Witness ==
    \E p \in Reqs :
        /\ req[p].status = 400 /\ req[p].error = "Invalid authorization code"
        /\ lookupsPassed[req[p].code] = 1 /\ tokenIdCounter = 1

\* C4 (as claimed): no code is in the store more than 600 seconds after its issue.
C4_NoCodeOlderThanTTL ==
    \A c \in DOMAIN authorizationCodes : now <= issuedAt[c] + CodeTTL

\* C4 (amended): the expiry timer of a code never runs before 600 seconds
\* have passed since the issue, and once it has run the code is absent from
\* the store, consumed or not.
C4_ExpiredCodeIsGone ==
    \A c \in DOMAIN issuedAt :
        c \notin DOMAIN timers
            => (c \notin DOMAIN authorizationCodes /\ now >= issuedAt[c] + CodeTTL)

\* The timer removed a code no request had consumed, and a later request
\* presenting it was refused.
C4_Witness ==
    \E p \in Reqs :
        /\ req[p].code \in DOMAIN issuedAt /\ req[p].code \notin DOMAIN timers
        /\ lookupsPassed[req[p].code] = 0
        /\ req[p].status = 400 /\ req[p].error = "Invalid authorization code"

\* C5: a request that ends with 500 after consuming its code issues no
\* bearer token and leaves the code out of the store: every other request
\* presenting that code ends with 400.
C5_MintFailureKeepsCodeConsumed ==
    \A p \in Reqs :
        req[p].status = 500
            => /\ req[p].access_token = NoToken
               /\ req[p].code \notin DOMAIN authorizationCodes
               /\ \A q \in Reqs \ {p} :
                     req[q].code = req[p].code => (req[q].pc = "done" /\ req[q].status = 400)

\* The mint was called and failed; a later request with the same code was refused.
C5_Witness ==
    \E p, q \in Reqs :
        /\ p # q /\ req[p].status = 500 /\ mintCalls[req[p].code] = 1 /\ req[p].receipt = <<>>
        /\ req[q].code = req[p].code /\ req[q].error = "Invalid authorization code"

\* The id the ledger assigned in the mint of a receipt: TokenMinted's first
\* indexed argument, which is mintAuthToken's return value.
MintedId(receipt) == receipt[3][2]

\* C6 (as claimed): the tokenId in the bearer token and in nft_token_id is
\* the id the ledger assigned to the record this request minted, and the
\* token's userAddress, clientId and scope are those of the consumed request.
C6_TokenBoundToMintedRecord ==
    \A p \in Reqs :
        req[p].status = 200
            => /\ req[p].access_token.tokenId = MintedId(req[p].receipt)
               /\ req[p].nft_token_id = MintedId(req[p].receipt)
               /\ req[p].access_token.userAddress = req[p].authRequest.userAddress
               /\ req[p].access_token.clientId = req[p].authRequest.clientId
               /\ req[p].access_token.scope = req[p].authRequest.scope

\* C7: every bearer token issued references a tokenId that exists on the
\* ledger and was signed after this request's mint was confirmed; a request
\* that failed has issued none.
C7_TokenReferencesExistingRecord ==
    \A p \in Reqs :
        /\ req[p].access_token # NoToken
              => (exists(req[p].access_token.tokenId) /\ req[p].receipt # <<>>
                    /\ req[p].status = 200)
        /\ req[p].status \in {400, 500} => req[p].access_token = NoToken

\* Two exchanges have each minted a record and issued a bearer token.
C7_Witness ==
    /\ tokenIdCounter = 2
    /\ \A p \in {1, 2} : req[p].status = 200 /\ req[p].access_token # NoToken

\* The step is a POST /oauth/authorize that was answered.
AuthorizeStep == authorizeResponse' # authorizeResponse

\* The step has put exactly one code into the store, the one of the response,
\* mapped to a complete request and with its expiry timer; nothing else in
\* the store or among the timers has changed.
OneNewCode ==
    LET c == authorizeResponse'.code IN
    /\ c \notin DOMAIN authorizationCodes /\ c \notin DOMAIN timers
    /\ DOMAIN authorizationCodes' = DOMAIN authorizationCodes \cup {c}
    /\ \A k \in DOMAIN authorizationCodes : authorizationCodes'[k] = authorizationCodes[k]
    /\ BodyComplete(authorizationCodes'[c].clientId, authorizationCodes'[c].redirectUri,
                    authorizationCodes'[c].userAddress)
    /\ DOMAIN timers' = DOMAIN timers \cup {c}
    /\ \A k \in DOMAIN timers : timers'[k] = timers[k]
    /\ timers'[c] = now + CodeTTL

\* C18: POST /oauth/authorize with clientId, redirectUri or userAddress
\* missing answers 400, stores no code and schedules no timer; with all
\* three present it answers with a code and stores exactly that one new code.
C18_MissingFieldsIssueNothing ==
    [][AuthorizeStep
         => IF authorizeResponse'.bodyComplete
              THEN authorizeResponse'.status = 200 /\ OneNewCode
              ELSE authorizeResponse'.status = 400 /\ UNCHANGED storeVars]_vars

\* A request with a field missing was refused while a code issued earlier
\* is still in the store.
C18_Witness ==
    /\ authorizeResponse.status = 400 /\ ~authorizeResponse.bodyComplete
    /\ Cardinality(DOMAIN authorizationCodes) = 1 /\ Cardinality(DOMAIN timers) = 1

\* C20 (as claimed): the expiry of every bearer token issued by a successful
\* exchange is at or before the expiresAt of the ledger record it references.
C20_BearerExpiresNoLaterThanRecord ==
    \A p \in Reqs :
        req[p].status = 200
            => req[p].access_token.exp <= authTokens[req[p].access_token.tokenId].expiresAt

\* POST /oauth/token request p has consumed its code and has not answered yet.
Pending(p) == req[p].pc \in {"getSigner", "mintAuthToken", "wait"}

\* C25 (as claimed): every POST /oauth/token request that has consumed its
\* code eventually answers (200 or 500), whether or not the ledger ever
\* answers the mint call or confirms the transaction.
C25_ExchangeEventuallyAnswers ==
    \A p \in Reqs : Pending(p) ~> (req[p].pc = "done" /\ req[p].status \in {200, 500})

\* ======================================================================
\* Properties of the contract (LedgerSpec)
\* ======================================================================

\* The step is a revokeToken transaction.
RevokeStep == lastCall'.n # lastCall.n /\ lastCall'.fn = "revokeToken"

\* C8 (as claimed): once revokeToken(tokenId) has succeeded, which is the
\* only way the revoked flag gets set, isTokenValid(tokenId) is false in
\* every later state.
C8_RevokedStaysInvalid ==
    [][\A t \in TokenIds : authTokens[t].revoked => ~isTokenValid(t)']_vars

\* C9 (as claimed): revokeToken succeeds only for the subject stored in the
\* record or the contract owner.
C9_OnlySubjectOrOwnerRevokes ==
    [][(RevokeStep /\ lastCall'.result = "ok")
          => lastCall'.sender \in {authTokens[lastCall'.tokenId].user, owner}]_vars

\* C9 (amended): revokeToken succeeds exactly when the caller is the current
\* holder of the NFT or the contract owner; for any other caller it reverts
\* with "Not authorized" and leaves the ledger unchanged.
C9_OnlyHolderOrOwnerRevokes ==
    [][RevokeStep
          => IF lastCall'.sender \in {ownerOf(lastCall'.tokenId), owner}
               THEN lastCall'.result = "ok" /\ authTokens'[lastCall'.tokenId].revoked
               ELSE lastCall'.result = "Not authorized" /\ UNCHANGED ledgerVars]_vars

\* The NFT was transferred and its new holder, neither the subject nor the
\* contract owner, has revoked it.
C9_Witness ==
    /\ lastCall.fn = "revokeToken" /\ lastCall.result = "ok"
    /\ lastCall.sender = ownerOf(lastCall.tokenId)
    /\ lastCall.sender # owner
    /\ lastCall.sender # authTokens[lastCall.tokenId].user

\* C10: revokeToken on an already revoked tokenId by a caller the contract
\* authorizes (holder or contract owner) does not revert and leaves the
\* whole ledger state as it was.
C10_SecondRevokeIsNoOp ==
    [][(RevokeStep /\ authTokens[lastCall'.tokenId].revoked
          /\ lastCall'.sender \in {ownerOf(lastCall'.tokenId), owner})
          => (lastCall'.result = "ok" /\ UNCHANGED ledgerVars)]_vars

\* A minted token that was already revoked has been revoked again.
C10_Witness ==
    /\ lastCall.fn = "revokeToken" /\ lastCall.result = "ok" /\ lastCall.wasRevoked
    /\ exists(lastCall.tokenId) /\ authTokens[lastCall.tokenId].revoked

\* The ids handed out so far: tokenId = _tokenIdCounter++ starts at 0.
Minted == {t \in TokenIds : t < tokenIdCounter}

\* C14: isTokenValid(tokenId) is false for every id never minted, for a
\* minted id it is exactly (not revoked) and (expiresAt > block time), and it
\* has a boolean answer for every id.
C14_ValidityIsDerived ==
    \A t \in TokenIds :
        /\ isTokenValid(t) \in BOOLEAN
        /\ t \notin Minted => ~isTokenValid(t)
        /\ t \in Minted
             => (isTokenValid(t) <=> (~authTokens[t].revoked /\ authTokens[t].expiresAt > now))

\* A minted, not revoked record at the very second of its expiry, next to an
\* id that was never minted.
C14_Witness ==
    /\ \E t \in Minted : ~authTokens[t].revoked /\ authTokens[t].expiresAt = now
    /\ \E t \in TokenIds : t \notin Minted

\* The step is a mintAuthToken / registerClient transaction.
MintStep == lastCall'.n # lastCall.n /\ lastCall'.fn = "mintAuthToken"
RegisterStep == lastCall'.n # lastCall.n /\ lastCall'.fn = "registerClient"

\* The mint of this step has added exactly one record, built from the
\* arguments with revoked = false, under the id it returns.
MintedExactlyOne ==
    LET a == lastCall'.args IN
    /\ lastCall'.tokenId = tokenIdCounter
    /\ tokenIdCounter' = tokenIdCounter + 1
    /\ authTokens' = [authTokens EXCEPT ![tokenIdCounter] =
                         [user |-> a.user, clientId |-> a.clientId, scope |-> a.scope,
                          expiresAt |-> a.expiresAt, revoked |-> FALSE]]
    /\ userTokens' = [userTokens EXCEPT ![a.user] = Append(@, tokenIdCounter)]
    /\ clientRegistry' = clientRegistry

\* C15 (as claimed): mintAuthToken reverts when clientId is not registered
\* or expiresAt is not strictly greater than the block time, and then leaves
\* the ledger unchanged; otherwise it creates exactly one new record with
\* revoked = false and returns its id.
C15_MintRevertsOnlyOnRequires ==
    [][MintStep
         => IF \/ clientRegistry[lastCall'.args.clientId] = ZeroAddress
               \/ lastCall'.args.expiresAt <= now
              THEN lastCall'.result # "ok" /\ UNCHANGED ledgerVars
              ELSE lastCall'.result = "ok" /\ MintedExactlyOne]_vars

\* C15 (amended): mintAuthToken reverts when clientId is not registered, when
\* expiresAt is not strictly greater than the block time, or when the
\* receiver user is address(0); a reverted mint leaves the ledger unchanged;
\* otherwise it creates exactly one new record with revoked = false and
\* returns its id.
C15_MintRevertsAlsoForZeroUser ==
    [][MintStep
         => IF \/ clientRegistry[lastCall'.args.clientId] = ZeroAddress
               \/ lastCall'.args.expiresAt <= now
               \/ lastCall'.args.user = ZeroAddress
              THEN lastCall'.result # "ok" /\ UNCHANGED ledgerVars
              ELSE lastCall'.result = "ok" /\ MintedExactlyOne]_vars

\* After one mint has gone through, a mint for address(0) with a registered
\* client and an expiry in the future has reverted.
C15_Witness ==
    /\ tokenIdCounter = 1 /\ exists(0)
    /\ lastCall.fn = "mintAuthToken" /\ lastCall.result = "ERC721InvalidReceiver"
    /\ lastCall.args.user = ZeroAddress
    /\ clientRegistry[lastCall.args.clientId] # ZeroAddress
    /\ lastCall.args.expiresAt > now

\* C16: isTokenValid(tokenId) is true right after a successful mint, and a
\* valid token stays valid over every step after which the time is below its
\* expiresAt and in which no revokeToken(tokenId) succeeds.
C16_ValidUntilExpiryOrRevoke ==
    [][/\ \A t \in TokenIds :
             (MintStep /\ lastCall'.result = "ok" /\ lastCall'.tokenId = t)
                => isTokenValid(t)'
       /\ \A t \in TokenIds :
             (/\ isTokenValid(t)
              /\ now' < authTokens'[t].expiresAt
              /\ ~(RevokeStep /\ lastCall'.tokenId = t /\ lastCall'.result = "ok"))
                => isTokenValid(t)']_vars

\* A minted token is still valid after a revokeToken that was refused.
C16_Witness ==
    /\ lastCall.fn = "revokeToken" /\ lastCall.result = "Not authorized"
    /\ isTokenValid(lastCall.tokenId) /\ now < authTokens[lastCall.tokenId].expiresAt

\* C17 (as claimed): once a registerClient for a clientId has succeeded,
\* every later registerClient by the contract owner for that clientId reverts
\* with "Client already registered", and the registry entry never changes.
C17_RegistrationIsFinal ==
    [][/\ (RegisterStep /\ lastCall'.sender = owner
             /\ lastCall'.args.clientId \in everRegistered)
            => lastCall'.result = "Client already registered"
       /\ \A c \in everRegistered : clientRegistry'[c] = clientRegistry[c]]_vars

\* The records that exist are those under the ids 0 .. _tokenIdCounter - 1.
CounterCountsRecords ==
    {t \in TokenIds : exists(t)} = 0 .. (tokenIdCounter - 1)

\* C23: a successful mintAuthToken assigns the id _tokenIdCounter, which no
\* record had before, and moves the counter up by one; nothing else moves
\* the counter; the records that exist are always exactly those with the
\* ids 0 .. counter - 1, so ids go 0, 1, 2, ... in mint order without gaps
\* and are never assigned twice.
C23_IdsCountUpFromZero ==
    [][/\ CounterCountsRecords /\ CounterCountsRecords'
       /\ IF MintStep /\ lastCall'.result = "ok"
            THEN /\ lastCall'.tokenId = tokenIdCounter
                 /\ ~exists(tokenIdCounter)
                 /\ tokenIdCounter' = tokenIdCounter + 1
                 /\ authTokens'[tokenIdCounter].user = lastCall'.args.user
            ELSE tokenIdCounter' = tokenIdCounter]_vars

\* Two mints have gone through, with another transaction among the three
\* sent; the last one got id 1.
C23_Witness ==
    /\ lastCall.n = 3 /\ lastCall.fn = "mintAuthToken" /\ lastCall.result = "ok"
    /\ lastCall.tokenId = 1 /\ tokenIdCounter = 2 /\ exists(0) /\ exists(1)

\* getUserTokens(u) lists, in increasing order, the ids of the records
\* minted with user = u.
ListsRecordsOf(u) ==
    LET s == getUserTokens(u) IN
    /\ \A i, j \in 1 .. Len(s) : i < j => s[i] < s[j]
    /\ {s[i] : i \in 1 .. Len(s)} = {t \in Minted : authTokens[t].user = u}

\* C24: getUserTokens(u) is the sequence of the ids of the records minted
\* with user = u, in mint order and without duplicates: a successful mint
\* for u appends its id, and every other step (a mint for another user, a
\* revokeToken, a transfer, time passing an expiry) leaves it as it was.
C24_UserTokensListMints ==
    [][\A u \in Address :
          /\ ListsRecordsOf(u)'
          /\ getUserTokens(u)' =
                IF MintStep /\ lastCall'.result = "ok" /\ lastCall'.args.user = u
                  THEN Append(getUserTokens(u), lastCall'.tokenId)
                  ELSE getUserTokens(u)]_vars

\* A user holds two records in mint order, the first of them revoked.
C24_Witness ==
    \E u \in Address :
        /\ getUserTokens(u) = <<0, 1>>
        /\ authTokens[0].revoked /\ ~authTokens[1].revoked
        /\ lastCall.fn = "revokeToken" /\ lastCall.result = "ok"

\* C19: the user, clientId, scope and expiresAt of a minted record never
\* change and its revoked flag never goes back to false; a revokeToken
\* transaction changes nothing in the ledger but the revoked flag of its own
\* tokenId.
C19_RecordImmutableButRevoked ==
    [][/\ \A t \in Minted :
             /\ authTokens'[t].user = authTokens[t].user
             /\ authTokens'[t].clientId = authTokens[t].clientId
             /\ authTokens'[t].scope = authTokens[t].scope
             /\ authTokens'[t].expiresAt = authTokens[t].expiresAt
             /\ authTokens[t].revoked => authTokens'[t].revoked
       /\ RevokeStep
            => /\ UNCHANGED <<tokenIdCounter, userTokens, clientRegistry, owners>>
               /\ \A t \in TokenIds \ {lastCall'.tokenId} : authTokens'[t] = authTokens[t]
               /\ authTokens'[lastCall'.tokenId] =
                     [authTokens[lastCall'.tokenId] EXCEPT
                        !.revoked = @ \/ lastCall'.result = "ok"]]_vars

\* Of two minted records one has just been revoked, the other has not.
C19_Witness ==
    /\ tokenIdCounter = 2
    /\ lastCall.fn = "revokeToken" /\ lastCall.result = "ok" /\ ~lastCall.wasRevoked
    /\ lastCall.tokenId \in Minted /\ authTokens[lastCall.tokenId].revoked
    /\ \E t \in Minted : ~authTokens[t].revoked

\* ======================================================================
\* Properties of verification and revocation (ApiSpec)
\* ======================================================================

\* The token failed to decode when the handler looked at it at time t.
DecodeFails(token, t) ==
    token = Malformed \/ token.sig # Signature(token, JWT_SECRET) \/ t >= token.exp

\* C11: POST /oauth/verify answers valid:true for a bearer token only if its
\* signature verifies, its own expiry had not passed and the ledger answered
\* isTokenValid = true for its tokenId; every other answer to a request that
\* carries a token is 401, and a token that fails to decode causes no ledger call.
C11_VerifyNeedsCodecAndLedger ==
    \A v \in VerifyReqs :
        /\ vreq[v].status = 200
              => (~DecodeFails(vreq[v].token, vreq[v].decodedAt) /\ vreq[v].isValid)
        /\ (vreq[v].pc = "done" /\ vreq[v].token # NoToken /\ vreq[v].status # 200)
              => vreq[v].status = 401
        /\ (vreq[v].pc # "idle" /\ vreq[v].token # NoToken
               /\ DecodeFails(vreq[v].token, vreq[v].decodedAt))
              => (vreq[v].status = 401 /\ vreq[v].ledgerCalls = 0)

\* A token was verified as valid after both ledger reads.
C11_Witness ==
    \E v \in VerifyReqs :
        /\ vreq[v].status = 200 /\ vreq[v].ledgerCalls = 2
        /\ vreq[v].token \in IssuedTokens /\ vreq[v].tokenInfo.user \in Users

\* The exchanges that returned the bearer token.
IssuersOf(token) == {p \in Reqs : req[p].status = 200 /\ req[p].access_token = token}

\* Neither the bearer token nor a ledger record minted for it has expired.
BeforeExpiry(token) ==
    /\ now < token.exp
    /\ \A p \in IssuersOf(token) : now < authTokens[MintedId(req[p].receipt)].expiresAt

\* C12 (as claimed): for a bearer token t obtained from a successful
\* exchange, a verify of t that the ledger answers before any revoke of t and
\* before expiry says valid:true, and a verify of t that starts after a revoke
\* of t has answered success says 401.
C12_VerifyFollowsOwnRevocation ==
    \A v \in VerifyReqs :
        (vreq[v].pc = "done" /\ vreq[v].token \in IssuedTokens)
            => /\ vreq[v].afterRevoke => vreq[v].status = 401
               /\ ((\A r \in RevokeReqs : rreq[r].token # vreq[v].token)
                     /\ BeforeExpiry(vreq[v].token)
                     /\ vreq[v].error # "Invalid token")
                    => vreq[v].status = 200

\* C13: POST /oauth/revoke with a token that is malformed, badly signed or
\* already expired answers 500 and makes no revokeToken call.
C13_BadTokenCannotRevoke ==
    \A r \in RevokeReqs :
        (rreq[r].pc # "idle" /\ rreq[r].token # NoToken
           /\ DecodeFails(rreq[r].token, rreq[r].decodedAt))
            => (rreq[r].pc = "done" /\ rreq[r].status = 500 /\ rreq[r].ledgerCalls = 0)

\* An issued token was presented for revocation after its expiry; the record
\* it refers to is still not revoked.
C13_Witness ==
    \E r \in RevokeReqs :
        /\ rreq[r].status = 500 /\ rreq[r].token \in IssuedTokens
        /\ rreq[r].decodedAt >= rreq[r].token.exp
        /\ exists(rreq[r].token.tokenId) /\ ~authTokens[rreq[r].token.tokenId].revoked

\* C21 (as claimed): whenever a ledger call fails while POST /oauth/token,
\* POST /oauth/verify or POST /oauth/revoke is being handled, the handler
\* answers with status 500.
C21_LedgerFailureAnswers500 ==
    /\ \A p \in Reqs : req[p].ledgerFailed => req[p].status = 500
    /\ \A v \in VerifyReqs : vreq[v].ledgerFailed => vreq[v].status = 500
    /\ \A r \in RevokeReqs : rreq[r].ledgerFailed => rreq[r].status = 500

\* C22 (as claimed): every exchange that has ended after its mint was
\* committed has issued a bearer token for the record it minted, and no two
\* exchanges have issued a token for the same record.
C22_OneBearerTokenPerRecord ==
    /\ \A p \in Reqs :
          (req[p].pc = "done" /\ req[p].receipt # <<>>) => req[p].status = 200
    /\ \A p, q \in Reqs :
          (p # q /\ req[p].receipt # <<>> /\ req[q].receipt # <<>>)
             => MintedId(req[p].receipt) # MintedId(req[q].receipt)

\* C26 (as claimed): a verify answer with valid:true carries
\* tokenInfo.revoked = false, whatever revoke runs beside it.
C26_ValidAnswerShowsNotRevoked ==
    \A v \in VerifyReqs : vreq[v].status = 200 => ~vreq[v].tokenInfo.revoked

====
